---- MODULE Spec2Model ----
(***************************************************************************)
(* A model of the function-transform bijections of flowjax                 *)
(* (flowjax/bijections/jax_transforms.py): Scan, which applies a stack of   *)
(* layers with jax.lax.scan, and Vmap, which adds a batch axis with         *)
(* equinox.filter_vmap; of the flow constructors of flowjax/flows.py, which  *)
(* stack layers under a Scan; and of the shapes of Distribution.sample and   *)
(* log_prob that tests/test_distributions.py exercises.                      *)
(*                                                                         *)
(* Reals are modelled by the residues modulo Modulus, so that an affine     *)
(* layer with a unit scale is an exact bijection and round trips can be     *)
(* decided.  An array is a record [shape, data] with data in row order; a   *)
(* scalar is the array of shape <<>>.  A Python None is the empty tuple.    *)
(***************************************************************************)
EXTENDS Integers, Sequences, FiniteSets, TLC

\* ------------------------------------------------------------------ bounds and value sets
\* the largest number of layers stacked in a Scan
MaxLayers == 2
\* the residues that stand for the reals
Modulus == 3
\* the largest length of an axis of a parameter leaf, and the largest axis_size
MaxAxisSize == 2

Values == 0 .. Modulus - 1
Locs == {0, 1}
Conds == {1}
ShapeOfLayer == <<2>>

None == <<>>
Some(v) == <<v>>

\* ------------------------------------------------------------------ arrays
RECURSIVE SeqSum(_)
SeqSum(s) == IF s = <<>> THEN 0 ELSE Head(s) + SeqSum(Tail(s))

Scalar(n) == [shape |-> <<>>, data |-> <<n>>]
Vector(s) == [shape |-> <<Len(s)>>, data |-> s]

\* a.sum(): the scalar holding the sum of every entry of a
ArraySum(a) == Scalar(SeqSum(a.data))

\* a + b under broadcasting, for a scalar and an array or two arrays of one shape
ArrayAdd(a, b) ==
    IF a.shape = b.shape
    THEN [shape |-> a.shape, data |-> [i \in 1 .. Len(a.data) |-> a.data[i] + b.data[i]]]
    ELSE IF a.shape = <<>>
    THEN [shape |-> b.shape, data |-> [i \in 1 .. Len(b.data) |-> a.data[1] + b.data[i]]]
    ELSE [shape |-> a.shape, data |-> [i \in 1 .. Len(a.data) |-> a.data[i] + b.data[1]]]

Mod(n) == (n + Modulus * Modulus * Modulus) % Modulus

\* ------------------------------------------------------------------ a layer
\* The wrapped bijection is an affine layer y = scale * x + loc (+ condition),
\* elementwise over its shape.  Its array leaves are loc and scale; the field
\* sum_log_det is static: TRUE when the layer reduces its log-det to a scalar,
\* FALSE when it returns one log-det per element.
InvMod(s) ==
    IF \E t \in Values : Mod(s * t) = 1
    THEN CHOOSE t \in Values : Mod(s * t) = 1
    ELSE 0

LogAbs(s) == s - 1

CondTerm(condition) == IF condition = None THEN 0 ELSE condition[1]

\* the log-det of the layer over an input of n elements
LayerLogDet(layer, sign, n) ==
    LET each == [i \in 1 .. n |-> sign * LogAbs(layer.scale)]
    IN  IF layer.sum_log_det THEN Scalar(SeqSum(each)) ELSE Vector(each)

LayerTransform(layer, x, condition) ==
    [i \in 1 .. Len(x) |-> Mod(layer.scale * x[i] + layer.loc + CondTerm(condition))]

LayerInverse(layer, y, condition) ==
    [i \in 1 .. Len(y) |-> Mod((y[i] - layer.loc - CondTerm(condition)) * InvMod(layer.scale))]

LayerTransformAndLogDet(layer, x, condition) ==
    <<LayerTransform(layer, x, condition), LayerLogDet(layer, 1, Len(x))>>

LayerInverseAndLogDet(layer, y, condition) ==
    <<LayerInverse(layer, y, condition), LayerLogDet(layer, -1, Len(y))>>

LayerCall(m, layer, x, condition) ==
    CASE m = "transform" -> LayerTransform(layer, x, condition)
      [] m = "inverse" -> LayerInverse(layer, x, condition)
      [] m = "transform_and_log_det" -> LayerTransformAndLogDet(layer, x, condition)
      [] m = "inverse_and_log_det" -> LayerInverseAndLogDet(layer, x, condition)

\* the check every bijection and distribution makes of its condition argument:
\* a condition given to an object without cond_shape, or none given to an object
\* with one, is a ValueError ("" for no exception)
Argcheck(cond_shape, condition) ==
    IF (cond_shape = None) # (condition = None) THEN "ValueError" ELSE ""

LayerArgcheck(layer, condition) == Argcheck(layer.cond_shape, condition)

Methods == {"transform", "inverse", "transform_and_log_det", "inverse_and_log_det"}
LogDetMethods == {"transform_and_log_det", "inverse_and_log_det"}

\* ------------------------------------------------------------------ inputs
Inputs == [1 .. ShapeOfLayer[1] -> Values]
Conditions == {None} \cup {Some(c) : c \in Conds}

\* the conditions of the declared cond_shape: none for None, a scalar for ()
ConditionsOf(cond_shape) == IF cond_shape = None THEN {None} ELSE {Some(c) : c \in Conds}

\* Stacked layers: every array leaf has a leading axis of length L.
\* The layers are scalings (loc = 0, any scale) and the shift (loc = 1, scale = 1).
LayerParams == {[loc |-> 0, scale |-> s] : s \in Values} \cup {[loc |-> 1, scale |-> 1]}

Stacked(L) ==
    {[loc |-> [i \in 1 .. L |-> p[i].loc], scale |-> [i \in 1 .. L |-> p[i].scale],
      sum_log_det |-> s, shape |-> ShapeOfLayer, cond_shape |-> c] :
        p \in [1 .. L -> LayerParams], s \in BOOLEAN, c \in {None, Some(<<>>)}}
StackedBijections == UNION {Stacked(L) : L \in 0 .. MaxLayers}

NumLayers(b) == Len(b.loc)

\* ------------------------------------------------------------------ state
VARIABLES
    pc,         \* where the caller is
    method,     \* the method being called
    x_in,       \* its argument x (or y)
    condition,  \* its argument condition
    result,     \* what the last call returned
    orig,       \* Some(x) while the output of a call on x is fed to the opposite method
    bijection,  \* Scan: self.bijection, the stacked layers; make_layer: the layer returned
    carry,      \* Scan: the carry of jax.lax.scan
    k,          \* Scan: the iterations done
    applied,    \* Scan: the layer calls made so far, in order
    args,       \* Vmap: the arguments given to the constructor
    vmap,       \* Vmap: the constructed object
    raised,     \* the exception raised, "" for none
    flow,       \* flows: the flow constructed
    built,      \* flows: the layers make_layer has built
    calls       \* flows: the calls sample or log_prob made of methods of the layers

callVars == <<method, x_in, condition, result, orig>>
scanVars == <<bijection, carry, k, applied>>
vmapVars == <<args, vmap, raised>>
flowVars == <<flow, built, calls>>
vars == <<pc, callVars, scanVars, vmapVars, flowVars>>

Init ==
    /\ pc = "idle"
    /\ method = "none"
    /\ bijection = None
    /\ x_in = None
    /\ condition = None
    /\ carry = None
    /\ k = 0
    /\ applied = <<>>
    /\ result = None
    /\ orig = None
    /\ args = None
    /\ vmap = None
    /\ raised = ""
    /\ flow = None
    /\ built = <<>>
    /\ calls = <<>>

\* ------------------------------------------------------------------ Scan
\* eqx.partition(xs, eqx.is_array): the array leaves and the rest
PartitionParams(b) == [loc |-> b.loc, scale |-> b.scale]
PartitionStatic(b) ==
    [sum_log_det |-> b.sum_log_det, shape |-> b.shape, cond_shape |-> b.cond_shape]

\* eqx.combine(x, static), x the slice of the array leaves that scan hands over
Combine(x, static) ==
    [loc |-> x.loc, scale |-> x.scale, sum_log_det |-> static.sum_log_det,
     shape |-> static.shape, cond_shape |-> static.cond_shape]

SliceParams(params, i) == [loc |-> params.loc[i], scale |-> params.scale[i]]

\* (a variant that leaves reverse=True out of inverse_and_log_det)
ScanReverseInverseOnly(m) == m = "inverse"

\* the reverse flag each method passes to _filter_scan
ScanReverse(m) == m \in {"inverse", "inverse_and_log_det"}

\* the initial carry each method passes to _filter_scan
ScanInit(m, x) == IF m \in LogDetMethods THEN <<x, Scalar(0)>> ELSE x

\* (a variant that scans forward whatever the flag)
ScanIndexForward(n, L, reverse) == n

\* jax.lax.scan: the index of the slice consumed by iteration number n (from 1)
ScanIndex(n, L, reverse) == IF reverse THEN L - n + 1 ELSE n

\* the step function of each method: the next carry
StepTransform(c, layer, cond) == LayerTransform(layer, c, cond)

\* (a variant whose inverse step calls the layer's transform)
StepInverseCallsTransform(c, layer, cond) == LayerTransform(layer, c, cond)

StepInverse(c, layer, cond) == LayerInverse(layer, c, cond)

\* (a variant that adds the layer's log-det without .sum())
StepTransformAndLogDetNoSum(c, layer, cond) ==
    LET out == LayerTransformAndLogDet(layer, c[1], cond)
    IN  <<out[1], ArrayAdd(c[2], out[2])>>

StepTransformAndLogDet(c, layer, cond) ==
    LET out == LayerTransformAndLogDet(layer, c[1], cond)
    IN  <<out[1], ArrayAdd(c[2], ArraySum(out[2]))>>

StepInverseAndLogDet(c, layer, cond) ==
    LET out == LayerInverseAndLogDet(layer, c[1], cond)
    IN  <<out[1], ArrayAdd(c[2], ArraySum(out[2]))>>

Step(m, c, layer, cond) ==
    CASE m = "transform" -> StepTransform(c, layer, cond)
      [] m = "inverse" -> StepInverse(c, layer, cond)
      [] m = "transform_and_log_det" -> StepTransformAndLogDet(c, layer, cond)
      [] m = "inverse_and_log_det" -> StepInverseAndLogDet(c, layer, cond)

\* the value a step hands to the layer
CarryX(m, c) == IF m \in LogDetMethods THEN c[1] ELSE c

\* the conditions a method of Scan is called with: those of the declared
\* cond_shape and, on a Scan of at least one layer, also the others (with no
\* layer jax.lax.scan runs no iteration; that call is left out)
ScanConditions(b) ==
    ConditionsOf(b.cond_shape) \cup (IF NumLayers(b) >= 1 THEN Conditions ELSE {})

\* A method of Scan is called: _filter_scan starts with the method's carry.
ScanCall ==
    /\ pc = "idle"
    /\ \E m \in Methods, b \in StackedBijections, x \in Inputs :
       \E c \in ScanConditions(b) :
          /\ method' = m
          /\ bijection' = b
          /\ x_in' = x
          /\ condition' = c
          /\ carry' = ScanInit(m, x)
    /\ pc' = "scan"
    /\ k' = 0
    /\ applied' = <<>>
    /\ UNCHANGED <<result, orig, vmapVars, flowVars>>

\* One iteration of jax.lax.scan: _scan_fn combines the slice with the static
\* fields and calls the method's step.
ScanStep ==
    /\ pc = "scan"
    /\ k < NumLayers(bijection)
    /\ LET i == ScanIndex(k + 1, NumLayers(bijection), ScanReverse(method))
           module == Combine(SliceParams(PartitionParams(bijection), i),
                             PartitionStatic(bijection))
       IN  IF LayerArgcheck(module, condition) = ""
           THEN /\ carry' = Step(method, carry, module, condition)
                /\ applied' = Append(applied,
                       [layer |-> i, x |-> CarryX(method, carry), condition |-> condition,
                        out |-> LayerCall(method, module, CarryX(method, carry), condition)])
                /\ UNCHANGED <<pc, raised>>
           ELSE /\ pc' = "scan_raised"
                /\ raised' = LayerArgcheck(module, condition)
                /\ applied' = Append(applied,
                       [layer |-> i, x |-> CarryX(method, carry), condition |-> condition,
                        out |-> None])
                /\ UNCHANGED carry
    /\ k' = k + 1
    /\ UNCHANGED <<method, bijection, x_in, condition, result, orig, args, vmap, flowVars>>

\* The scan is over: the method returns the final carry.
ScanReturn ==
    /\ pc = "scan"
    /\ k = NumLayers(bijection)
    /\ pc' = "scan_done"
    /\ result' = carry
    /\ UNCHANGED <<method, bijection, x_in, condition, carry, k, applied, orig, vmapVars, flowVars>>

\* The caller feeds the output of transform to inverse (or of inverse to
\* transform), with the same condition.
ScanRoundTrip ==
    /\ pc = "scan_done"
    /\ method \in {"transform", "inverse"}
    /\ orig = None
    /\ pc' = "scan"
    /\ method' = (IF method = "transform" THEN "inverse" ELSE "transform")
    /\ x_in' = result
    /\ carry' = ScanInit(method', result)
    /\ k' = 0
    /\ applied' = <<>>
    /\ orig' = Some(x_in)
    /\ UNCHANGED <<bijection, condition, result, vmapVars, flowVars>>

ScanShape(b) == b.shape

ScanCondShape(b) == b.cond_shape

\* The caller reads the shape and cond_shape properties of a Scan.
ScanReadShape ==
    /\ pc = "idle"
    /\ \E b \in StackedBijections :
          /\ bijection' = b
          /\ result' = <<ScanShape(b), ScanCondShape(b)>>
    /\ pc' = "scan_shape"
    /\ UNCHANGED <<method, x_in, condition, orig, carry, k, applied, vmapVars, flowVars>>

\* ------------------------------------------------------------------ Vmap
\* The bijection handed to Vmap is a pytree with the leaves loc and scale, in
\* this order, and the static fields shape and cond_shape.  A leaf is an array
\* (a scalar, a vector, a matrix) or a Python number, which is no array.
ScalarLeaves(vals) == {[is_array |-> TRUE, shape |-> <<>>, data |-> <<v>>] : v \in vals}

NumberLeaves(vals) == {[is_array |-> FALSE, shape |-> <<>>, data |-> <<v>>] : v \in vals}

VectorLeaves(vals) ==
    UNION {{[is_array |-> TRUE, shape |-> <<n>>, data |-> d] : d \in [1 .. n -> vals]} :
              n \in 1 .. MaxAxisSize}

MatrixLeaves ==
    {[is_array |-> TRUE, shape |-> <<n, m>>, data |-> [i \in 1 .. n * m |-> 0]] :
        n \in 1 .. MaxAxisSize, m \in 1 .. MaxAxisSize}

\* the declared shape and cond_shape of the bijections handed to Vmap
Signatures ==
    {[shape |-> <<>>, cond_shape |-> None], [shape |-> <<>>, cond_shape |-> Some(<<>>)],
     [shape |-> <<2>>, cond_shape |-> Some(<<2, 3>>)]}

VmapBijections ==
    {[loc |-> loc, scale |-> scale, sum_log_det |-> TRUE,
      shape |-> sig.shape, cond_shape |-> sig.cond_shape] :
        loc \in ScalarLeaves(Locs) \cup VectorLeaves(Locs) \cup MatrixLeaves,
        scale \in ScalarLeaves({1, 2}) \cup NumberLeaves({1, 2}) \cup VectorLeaves({1, 2}),
        sig \in Signatures}

TreeLeaves(tree) == <<tree.loc, tree.scale>>

\* One entry of in_axis: None, an int, or a callable from a leaf to None or an int
\* (eqx.if_array(axis), or lambda leaf: None).
AxisNone == [kind |-> "None", axis |-> 0]
AxisInt(a) == [kind |-> "int", axis |-> a]
IfArray(a) == [kind |-> "if_array", axis |-> a]
ConstNone == [kind |-> "lambda: None", axis |-> 0]

\* in_axis is one entry for the whole bijection, or a pytree with one entry a leaf
WholeInAxes == {[tree |-> FALSE, specs |-> <<e>>] :
                   e \in {AxisNone, AxisInt(0), AxisInt(1), IfArray(0), ConstNone}}
TreeInAxes == {[tree |-> TRUE, specs |-> <<e1, e2>>] :
                  e1 \in {AxisNone, AxisInt(0), AxisInt(1)},
                  e2 \in {AxisNone, AxisInt(0), IfArray(0)}}
InAxes == WholeInAxes \cup TreeInAxes

\* in_axis is None
InAxisIsNone(in_axis) == ~in_axis.tree /\ in_axis.specs[1] = AxisNone

\* _resolve_axis: the axis of one leaf under one entry of in_axis
ResolveAxis(in_axes, elem) ==
    CASE in_axes.kind = "None" -> None
      [] in_axes.kind = "int" -> Some(in_axes.axis)
      [] in_axes.kind = "if_array" -> IF elem.is_array THEN Some(in_axes.axis) ELSE None
      [] in_axes.kind = "lambda: None" -> None

\* _resolve_vmapped_axes: the axis of every leaf, None where it is not mapped
ResolveVmappedAxes(pytree, in_axes) ==
    [i \in 1 .. Len(TreeLeaves(pytree)) |->
        ResolveAxis(IF in_axes.tree THEN in_axes.specs[i] ELSE in_axes.specs[1],
                    TreeLeaves(pytree)[i])]

IsSome(o) == o # None

\* the sizes tree_leaves keeps: leaf.shape[ax] of every mapped leaf, in leaf order
MappedAxisSizes(tree, in_axis) ==
    LET axes == ResolveVmappedAxes(tree, in_axis)
        sizes == [i \in 1 .. Len(axes) |->
                     IF axes[i] # None
                     THEN Some(TreeLeaves(tree)[i].shape[axes[i][1] + 1])
                     ELSE None]
    IN  SelectSeq(sizes, IsSome)

\* (a variant that returns the size of the last mapped leaf)
InferAxisSizeFromLastLeaf(tree, in_axis) ==
    LET axis_sizes == MappedAxisSizes(tree, in_axis)
    IN  IF Len(axis_sizes) = 0
        THEN [raised |-> "ValueError: in_axis did not map to any leaves to vectorize.",
              value |-> 0]
        ELSE [raised |-> "", value |-> axis_sizes[Len(axis_sizes)][1]]

\* _infer_axis_size_from_params: the exception it raises ("" for none) and the
\* size it returns
InferAxisSizeFromParams(tree, in_axis) ==
    LET axis_sizes == MappedAxisSizes(tree, in_axis)
    IN  IF Len(axis_sizes) = 0
        THEN [raised |-> "ValueError: in_axis did not map to any leaves to vectorize.",
              value |-> 0]
        ELSE [raised |-> "", value |-> axis_sizes[1][1]]

\* (a variant without the check that in_axis and axis_size are not both given)
VmapNewWithoutBothCheck(b, in_axis, axis_size, in_axis_condition) ==
    LET inferred == InferAxisSizeFromParams(b, in_axis)
        no_object == [in_axes |-> <<>>, bijection |-> b, axis_size |-> 0]
    IN  IF axis_size = None /\ InAxisIsNone(in_axis)
        THEN [raised |-> "ValueError: Either axis_size or in_axis must be provided.",
              self |-> no_object]
        ELSE IF axis_size = None /\ inferred.raised # ""
        THEN [raised |-> inferred.raised, self |-> no_object]
        ELSE [raised |-> "",
              self |-> [in_axes |-> <<in_axis, Some(0), in_axis_condition>>,
                        bijection |-> b,
                        axis_size |-> IF axis_size = None THEN inferred.value
                                      ELSE axis_size[1]]]

\* Vmap.__init__: the exception it raises ("" for none) and the fields it sets
VmapNew(b, in_axis, axis_size, in_axis_condition) ==
    LET inferred == InferAxisSizeFromParams(b, in_axis)
        no_object == [in_axes |-> <<>>, bijection |-> b, axis_size |-> 0]
    IN  IF ~InAxisIsNone(in_axis) /\ axis_size # None
        THEN [raised |-> "ValueError: Cannot specify both in_axis and axis_size.",
              self |-> no_object]
        ELSE IF axis_size = None /\ InAxisIsNone(in_axis)
        THEN [raised |-> "ValueError: Either axis_size or in_axis must be provided.",
              self |-> no_object]
        ELSE IF axis_size = None /\ inferred.raised # ""
        THEN [raised |-> inferred.raised, self |-> no_object]
        ELSE [raised |-> "",
              self |-> [in_axes |-> <<in_axis, Some(0), in_axis_condition>>,
                        bijection |-> b,
                        axis_size |-> IF axis_size = None THEN inferred.value
                                      ELSE axis_size[1]]]

\* in_axis names only axes that exist: an int goes to array leaves only, and is
\* below the rank of the leaf
ValidInAxis(b, in_axis) ==
    /\ in_axis.tree => Len(in_axis.specs) = Len(TreeLeaves(b))
    /\ \A i \in 1 .. Len(TreeLeaves(b)) :
          LET ax == ResolveVmappedAxes(b, in_axis)[i]
              leaf == TreeLeaves(b)[i]
          IN  ax # None => (leaf.is_array /\ ax[1] < Len(leaf.shape))

\* in_axis_condition names an axis of a condition of the Vmap
ValidInAxisCondition(b, in_axis_condition) ==
    in_axis_condition # None =>
        in_axis_condition[1] <= (IF b.cond_shape = None THEN 0 ELSE Len(b.cond_shape[1]))

OptionalAxes == {None} \cup {Some(a) : a \in 0 .. 2}
OptionalSizes == {None} \cup {Some(n) : n \in 1 .. MaxAxisSize}

\* Vmap(bijection, in_axis, axis_size, in_axis_condition) is called.
VmapInit ==
    /\ pc = "idle"
    /\ \E b \in VmapBijections, in_axis \in InAxes,
          axis_size \in OptionalSizes, in_axis_condition \in OptionalAxes :
          /\ ValidInAxis(b, in_axis)
          /\ ValidInAxisCondition(b, in_axis_condition)
          /\ args' = [bijection |-> b, in_axis |-> in_axis, axis_size |-> axis_size,
                      in_axis_condition |-> in_axis_condition]
          /\ LET new == VmapNew(b, in_axis, axis_size, in_axis_condition)
             IN  /\ raised' = new.raised
                 /\ IF new.raised # ""
                    THEN pc' = "vmap_raised" /\ vmap' = vmap
                    ELSE pc' = "vmap_built" /\ vmap' = new.self
    /\ UNCHANGED <<callVars, scanVars, flowVars>>

VmapShape(self) == <<self.axis_size>> \o self.bijection.shape

\* (a variant that puts axis_size in front whatever in_axis_condition is)
VmapCondShapeLeading(self) ==
    LET ax == self.in_axes[3]
        cs == self.bijection.cond_shape
    IN  IF cs = None \/ ax = None THEN cs ELSE Some(<<self.axis_size>> \o cs[1])

VmapCondShape(self) ==
    LET ax == self.in_axes[3]
        cs == self.bijection.cond_shape
    IN  IF cs = None \/ ax = None
        THEN cs
        ELSE Some(SubSeq(cs[1], 1, ax[1]) \o <<self.axis_size>>
                  \o SubSeq(cs[1], ax[1] + 1, Len(cs[1])))

\* The caller reads the shape and cond_shape properties of a Vmap.
VmapReadShape ==
    /\ pc = "vmap_built"
    /\ pc' = "vmap_shape"
    /\ result' = <<VmapShape(vmap), VmapCondShape(vmap)>>
    /\ UNCHANGED <<method, x_in, condition, orig, scanVars, vmapVars, flowVars>>

\* The methods are modelled for a Vmap of scalar affine bijections: every
\* mapped leaf is a vector mapped along axis 0 and as long as the batch, every
\* other leaf is a scalar, and the condition, when there is one, is a scalar
\* for each batch element.
CallableVmap(self) ==
    /\ self.bijection.shape = <<>>
    /\ self.bijection.cond_shape \in {None, Some(<<>>)}
    /\ self.in_axes[3] \in {None, Some(0)}
    /\ \A i \in 1 .. Len(TreeLeaves(self.bijection)) :
          LET ax == ResolveVmappedAxes(self.bijection, self.in_axes[1])[i]
              leaf == TreeLeaves(self.bijection)[i]
          IN  leaf.shape = (IF ax = None THEN <<>> ELSE <<self.axis_size>>)

\* the inputs of the declared shape (axis_size,)
VmapInputs(self) == [1 .. self.axis_size -> {0, 1}]

\* the conditions of the declared cond_shape
VmapConditions(self) ==
    IF VmapCondShape(self) = None THEN {None}
    ELSE IF VmapCondShape(self) = Some(<<>>) THEN {Some(c) : c \in Conds}
    ELSE [1 .. self.axis_size -> {0} \cup Conds]

\* one batch element of an argument: the whole argument where its axis is None,
\* and element i along axis 0 otherwise (None has no leaf to map)
SliceArg(a, ax, i) == IF ax = None \/ a = None THEN a ELSE <<a[i]>>

\* one batch element of the bijection: every mapped leaf sliced, the rest whole
SliceBijection(b, in_axis, i) ==
    LET axes == ResolveVmappedAxes(b, in_axis)
    IN  [loc |-> IF axes[1] = None THEN b.loc.data[1] ELSE b.loc.data[i],
         scale |-> IF axes[2] = None THEN b.scale.data[1] ELSE b.scale.data[i],
         sum_log_det |-> b.sum_log_det, shape |-> b.shape, cond_shape |-> b.cond_shape]

\* eqx.filter_vmap(f, in_axes=in_axes)(bijection, x, condition), f calling
\* method m of the bijection: the outputs of the batch elements, in batch order
FilterVmap(m, in_axes, b, x, cond) ==
    [i \in 1 .. Len(x) |->
        LayerCall(m, SliceBijection(b, in_axes[1], i), SliceArg(x, in_axes[2], i),
                  SliceArg(cond, in_axes[3], i))]

\* the outputs of scalar batch elements stacked along the new axis
Stack(outs) == [i \in 1 .. Len(outs) |-> outs[i][1]]

\* jnp.sum of the stacked log-dets of the batch elements
RECURSIVE JnpSum(_)
JnpSum(log_det) ==
    IF log_det = <<>> THEN Scalar(0)
    ELSE ArrayAdd(ArraySum(Head(log_det)), JnpSum(Tail(log_det)))

VmapTransform(self, x, cond) ==
    Stack(FilterVmap("transform", self.in_axes, self.bijection, x, cond))

VmapTransformAndLogDet(self, x, cond) ==
    LET out == FilterVmap("transform_and_log_det", self.in_axes, self.bijection, x, cond)
    IN  <<Stack([i \in 1 .. Len(out) |-> out[i][1]]),
          JnpSum([i \in 1 .. Len(out) |-> out[i][2]])>>

\* (a variant whose inverse maps the transform of the bijection)
VmapInverseCallsTransform(self, y, cond) ==
    Stack(FilterVmap("transform", self.in_axes, self.bijection, y, cond))

VmapInverse(self, y, cond) ==
    Stack(FilterVmap("inverse", self.in_axes, self.bijection, y, cond))

\* (a variant that returns the stacked log-dets without jnp.sum)
VmapInverseAndLogDetNoSum(self, y, cond) ==
    LET out == FilterVmap("inverse_and_log_det", self.in_axes, self.bijection, y, cond)
    IN  <<Stack([i \in 1 .. Len(out) |-> out[i][1]]),
          Vector([i \in 1 .. Len(out) |-> out[i][2].data[1]])>>

VmapInverseAndLogDet(self, y, cond) ==
    LET out == FilterVmap("inverse_and_log_det", self.in_axes, self.bijection, y, cond)
    IN  <<Stack([i \in 1 .. Len(out) |-> out[i][1]]),
          JnpSum([i \in 1 .. Len(out) |-> out[i][2]])>>

VmapMethod(m, self, x, cond) ==
    CASE m = "transform" -> VmapTransform(self, x, cond)
      [] m = "inverse" -> VmapInverse(self, x, cond)
      [] m = "transform_and_log_det" -> VmapTransformAndLogDet(self, x, cond)
      [] m = "inverse_and_log_det" -> VmapInverseAndLogDet(self, x, cond)

\* A method of a Vmap is called on an input and a condition of its shapes.
VmapCall ==
    /\ pc = "vmap_built"
    /\ CallableVmap(vmap)
    /\ \E m \in Methods, x \in VmapInputs(vmap), c \in VmapConditions(vmap) :
          /\ method' = m
          /\ x_in' = x
          /\ condition' = c
          /\ result' = VmapMethod(m, vmap, x, c)
    /\ pc' = "vmap_done"
    /\ UNCHANGED <<orig, scanVars, vmapVars, flowVars>>

\* The caller feeds the output of transform to inverse (or of inverse to
\* transform), with the same condition.
VmapRoundTrip ==
    /\ pc = "vmap_done"
    /\ method \in {"transform", "inverse"}
    /\ orig = None
    /\ method' = (IF method = "transform" THEN "inverse" ELSE "transform")
    /\ x_in' = result
    /\ result' = VmapMethod(method', vmap, result, condition)
    /\ orig' = Some(x_in)
    /\ UNCHANGED <<pc, condition, scanVars, vmapVars, flowVars>>

\* ------------------------------------------------------------------ Distribution
\* Shapes only: an array is given by its shape.  TestDist is the toy distribution of the tests: _sample returns
\* zeros of the shape of the distribution and _log_prob a scalar.
DistShapes == {<<>>, <<2>>, <<3, 4>>}
DistCondShapes == {None, Some(<<>>), Some(<<4>>), Some(<<3, 4>>)}
LeadingShapes == {<<>>, <<3>>, <<3, 4>>}
SampleShapes == {<<>>, <<5>>, <<2, 2>>}

\* (a variant whose _sample returns a scalar)
TestDistSampleScalar(dist) == <<>>

TestDistSample(dist) == dist.shape

TestDistLogProb(dist) == <<>>

\* the dimensions of an array in front of its last n
LeadingDims(shape, n) == SubSeq(shape, 1, Len(shape) - n)

\* (a variant that takes the first n dimensions)
TrailingDimsFromFront(shape, n) == SubSeq(shape, 1, n)

\* the last n dimensions of an array
TrailingDims(shape, n) == SubSeq(shape, Len(shape) - n + 1, Len(shape))

\* the leading dimensions of the condition, none without a condition
ConditionLeading(dist, cond) ==
    IF cond = None THEN <<>> ELSE LeadingDims(cond[1], Len(dist.cond_shape[1]))

\* two batch shapes broadcast against each other, aligned at the right;
\* None when they do not broadcast
RECURSIVE Broadcast(_, _)
Broadcast(a, b) ==
    IF a = <<>> THEN Some(b)
    ELSE IF b = <<>> THEN Some(a)
    ELSE LET rest == Broadcast(SubSeq(a, 1, Len(a) - 1), SubSeq(b, 1, Len(b) - 1))
             da == a[Len(a)]
             db == b[Len(b)]
         IN  IF rest = None \/ (da # db /\ da # 1 /\ db # 1) THEN None
             ELSE Some(rest[1] \o <<IF da = 1 THEN db ELSE da>>)

\* Distribution.sample: the shape of the array it returns
DistributionSample(dist, cond, sample_shape) ==
    sample_shape \o ConditionLeading(dist, cond) \o TestDistSample(dist)

\* Distribution.log_prob: the exception it raises ("" for none) and the shape of
\* the array it returns
DistributionLogProb(dist, x, cond) ==
    LET n == Len(dist.shape)
        batch == IF Len(x) < n THEN None
                 ELSE Broadcast(LeadingDims(x, n), ConditionLeading(dist, cond))
    IN  IF Len(x) < n \/ TrailingDims(x, n) # dist.shape \/ batch = None
        THEN [raised |-> "ValueError", value |-> <<>>]
        ELSE [raised |-> "", value |-> batch[1] \o TestDistLogProb(dist)]

\* sample(key, condition, sample_shape) is called with a condition of shape
\* leading + cond_shape, or without one on an unconditional distribution.
DistSample ==
    /\ pc = "idle"
    /\ \E shape \in DistShapes, cond_shape \in DistCondShapes,
          leading \in LeadingShapes, sample_shape \in SampleShapes :
          LET dist == [shape |-> shape, cond_shape |-> cond_shape]
              cond == IF cond_shape = None THEN None ELSE Some(leading \o cond_shape[1])
          IN  /\ cond_shape = None => leading = <<>>
              /\ args' = [dist |-> dist, leading |-> leading, sample_shape |-> sample_shape]
              /\ condition' = cond
              /\ result' = DistributionSample(dist, cond, sample_shape)
    /\ pc' = "dist_sampled"
    /\ method' = "sample"
    /\ UNCHANGED <<x_in, orig, scanVars, vmap, raised, flowVars>>

\* log_prob is called on the samples, with the same condition.
DistLogProb ==
    /\ pc = "dist_sampled"
    /\ LET out == DistributionLogProb(args.dist, result, condition)
       IN  /\ raised' = out.raised
           /\ result' = out.value
    /\ pc' = "dist_log_prob"
    /\ method' = "log_prob"
    /\ x_in' = result
    /\ UNCHANGED <<condition, orig, scanVars, args, vmap, flowVars>>

\* the shapes of the distributions and of the arrays that log_prob is called on
LogProbShapes == {<<3>>, <<3, 2>>, <<2>>}
LogProbArgs == {<<>>, <<2>>, <<3>>, <<3, 2>>, <<2, 3>>, <<5, 3, 2>>}

\* log_prob(x) is called on an unconditional distribution with an array of any
\* shape; result is None when it raises and Some(shape returned) otherwise.
DistLogProbOf ==
    /\ pc = "idle"
    /\ \E shape \in LogProbShapes, x \in LogProbArgs :
          LET dist == [shape |-> shape, cond_shape |-> None]
              out == DistributionLogProb(dist, x, None)
          IN  /\ args' = [dist |-> dist]
              /\ x_in' = x
              /\ raised' = out.raised
              /\ result' = IF out.raised = "" THEN Some(out.value) ELSE None
    /\ pc' = "dist_log_prob_of"
    /\ method' = "log_prob"
    /\ UNCHANGED <<condition, orig, scanVars, vmap, flowVars>>

DistributionArgcheck(dist, cond) == Argcheck(dist.cond_shape, cond)

\* sample or log_prob is called with or without a condition, whatever the
\* cond_shape of the distribution; result is None when the call raises.
DistCondition ==
    /\ pc = "idle"
    /\ \E m \in {"sample", "log_prob"}, shape \in DistShapes,
          cond_shape \in {None, Some(<<4>>)}, cond \in {None, Some(<<4>>)} :
          LET dist == [shape |-> shape, cond_shape |-> cond_shape]
              exc == DistributionArgcheck(dist, cond)
          IN  /\ method' = m
              /\ args' = [dist |-> dist]
              /\ condition' = cond
              /\ raised' = exc
              /\ result' = IF exc # "" THEN None
                           ELSE IF m = "sample" THEN Some(DistributionSample(dist, cond, <<>>))
                           ELSE Some(DistributionLogProb(dist, shape, cond).value)
    /\ pc' = "dist_condition"
    /\ UNCHANGED <<x_in, orig, scanVars, vmap, flowVars>>

\* ------------------------------------------------------------------ Chain
\* Chain([layer_1, ..., layer_L]): the children are applied in construction
\* order by transform and in reverse order by inverse; the log-dets the
\* children return are added as they are, without a reduction.
ChainLayers(b) ==
    [i \in 1 .. NumLayers(b) |->
        Combine(SliceParams(PartitionParams(b), i), PartitionStatic(b))]

RECURSIVE ChainTransform(_, _, _)
ChainTransform(layers, x, c) ==
    IF layers = <<>> THEN x
    ELSE ChainTransform(Tail(layers), LayerTransform(Head(layers), x, c), c)

RECURSIVE ChainInverse(_, _, _)
ChainInverse(layers, y, c) ==
    IF layers = <<>> THEN y
    ELSE ChainInverse(SubSeq(layers, 1, Len(layers) - 1),
                      LayerInverse(layers[Len(layers)], y, c), c)

RECURSIVE ChainTransformAndLogDetFrom(_, _, _, _)
ChainTransformAndLogDetFrom(layers, x, c, log_det) ==
    IF layers = <<>> THEN <<x, log_det>>
    ELSE LET out == LayerTransformAndLogDet(Head(layers), x, c)
         IN  ChainTransformAndLogDetFrom(Tail(layers), out[1], c, ArrayAdd(log_det, out[2]))

ChainTransformAndLogDet(layers, x, c) ==
    ChainTransformAndLogDetFrom(layers, x, c, Scalar(0))

RECURSIVE ChainInverseAndLogDetFrom(_, _, _, _)
ChainInverseAndLogDetFrom(layers, y, c, log_det) ==
    IF layers = <<>> THEN <<y, log_det>>
    ELSE LET out == LayerInverseAndLogDet(layers[Len(layers)], y, c)
         IN  ChainInverseAndLogDetFrom(SubSeq(layers, 1, Len(layers) - 1), out[1], c,
                                       ArrayAdd(log_det, out[2]))

ChainInverseAndLogDet(layers, y, c) ==
    ChainInverseAndLogDetFrom(layers, y, c, Scalar(0))

ChainCall(m, layers, x, c) ==
    CASE m = "transform" -> ChainTransform(layers, x, c)
      [] m = "inverse" -> ChainInverse(layers, x, c)
      [] m = "transform_and_log_det" -> ChainTransformAndLogDet(layers, x, c)
      [] m = "inverse_and_log_det" -> ChainInverseAndLogDet(layers, x, c)

\* ------------------------------------------------------------------ composed bijections
\* A bijection of flows.py is a record with a field kind: a primitive (Affine,
\* Flip, Permute, Coupling, ...), a Chain of bijections, the Invert of one, or
\* a Scan, whose field bijection holds the stacked layers as a sequence.
Chain(bijections) == [kind |-> "Chain", bijections |-> bijections]
Invert(b) == [kind |-> "Invert", bijection |-> b]
Scan(stacked) == [kind |-> "Scan", bijection |-> stacked]
Flip(shape) == [kind |-> "Flip", shape |-> shape]
Permute(permutation) == [kind |-> "Permute", permutation |-> permutation]

\* Chain.merge_chains: the chains among the elements are replaced by their own
\* elements, merged in turn
RECURSIVE FlattenChain(_)
FlattenChain(bijections) ==
    IF bijections = <<>> THEN <<>>
    ELSE LET b == Head(bijections)
         IN  (IF b.kind = "Chain" THEN FlattenChain(b.bijections) ELSE <<b>>)
                 \o FlattenChain(Tail(bijections))

MergeChains(chain) == Chain(FlattenChain(chain.bijections))

\* jr.permutation(key, jnp.arange(dim)): any ordering of 0 .. dim-1
PermutationsOf(dim) ==
    {p \in [1 .. dim -> 0 .. dim - 1] : \A i, j \in 1 .. dim : p[i] = p[j] => i = j}

\* (a variant that puts the permutation in front of the bijection)
AddDefaultPermuteFirst(b, dim, perm) ==
    IF dim = 1 THEN b
    ELSE IF dim = 2 THEN MergeChains(Chain(<<Flip(<<dim>>), b>>))
    ELSE MergeChains(Chain(<<Permute(perm), b>>))

\* (a variant that flips up to dimension 3)
AddDefaultPermuteFlipThree(b, dim, perm) ==
    IF dim = 1 THEN b
    ELSE IF dim <= 3 THEN MergeChains(Chain(<<b, Flip(<<dim>>)>>))
    ELSE MergeChains(Chain(<<b, Permute(perm)>>))

\* _add_default_permute(bijection, dim, key), perm the ordering the key gives
AddDefaultPermute(b, dim, perm) ==
    IF dim = 1 THEN b
    ELSE IF dim = 2 THEN MergeChains(Chain(<<b, Flip(<<dim>>)>>))
    ELSE MergeChains(Chain(<<b, Permute(perm)>>))

GetDefaultPermuteName(dim) ==
    IF dim = 1 THEN "none" ELSE IF dim = 2 THEN "flip" ELSE "random"

Reverse(s) == [i \in 1 .. Len(s) |-> s[Len(s) + 1 - i]]

\* x[permutation] and its inverse
PermuteTransform(b, x) == [i \in 1 .. Len(x) |-> x[b.permutation[i] + 1]]
PermuteInverse(b, y) ==
    [i \in 1 .. Len(y) |-> y[CHOOSE j \in 1 .. Len(y) : b.permutation[j] + 1 = i]]

\* A method of a bijection on values: an Affine is the layer above, Flip and
\* Permute reorder x with a scalar log-det of 0, and a Chain applies its
\* elements in order (in reverse order for the inverse methods), each on the
\* output of the one before, adding up the log-dets as they are returned.
RECURSIVE BijectionCall(_, _, _, _)
RECURSIVE ChainApply(_, _, _, _)
BijectionCall(m, b, x, c) ==
    CASE b.kind = "Affine" -> LayerCall(m, b, x, c)
      [] b.kind = "Chain" ->
            ChainApply(m, IF ScanReverse(m) THEN Reverse(b.bijections) ELSE b.bijections,
                       IF m \in LogDetMethods THEN <<x, Scalar(0)>> ELSE x, c)
      [] b.kind \in {"Flip", "Permute"} ->
            LET y == IF b.kind = "Flip" THEN Reverse(x)
                     ELSE IF ScanReverse(m) THEN PermuteInverse(b, x)
                     ELSE PermuteTransform(b, x)
            IN  IF m \in LogDetMethods THEN <<y, Scalar(0)>> ELSE y

ChainApply(m, bijections, v, c) ==
    IF bijections = <<>> THEN v
    ELSE LET out == BijectionCall(m, Head(bijections), CarryX(m, v), c)
         IN  ChainApply(m, Tail(bijections),
                        IF m \in LogDetMethods THEN <<out[1], ArrayAdd(v[2], out[2])>>
                        ELSE out, c)

\* ------------------------------------------------------------------ flows
FlowPresets ==
    {"CouplingFlow", "MaskedAutoregressiveFlow", "BlockNeuralAutoregressiveFlow",
     "TriangularSplineFlow", "PlanarFlow"}

\* the largest dimension of a base distribution
MaxDim == 3

\* the shapes of the base distributions, the cond_dim and the flow_layers given
BaseShapes == {<<>>, <<2, 2>>} \cup {<<d>> : d \in 1 .. MaxDim}
CondDims == {None, Some(2)}
FlowLayerCounts == {1, 2}

\* (a variant of the check that rejects scalar base distributions only)
FlowNdimCheckScalarOnly(preset, base_shape) == Len(base_shape) = 0

\* the check of the base distribution that opens every constructor: TRUE when
\* it raises
FlowNdimCheck(preset, base_shape) == Len(base_shape) # 1

\* dim: base_dist.shape[0] or base_dist.shape[-1]
FlowDim(preset, base_shape) ==
    IF preset \in {"BlockNeuralAutoregressiveFlow", "TriangularSplineFlow"}
    THEN base_shape[Len(base_shape)]
    ELSE base_shape[1]

\* the bijection make_layer builds before the permutation is added
FlowLayerBijection(preset, dim, cond_dim) ==
    CASE preset = "CouplingFlow" ->
            [kind |-> "Coupling", untransformed_dim |-> dim \div 2, dim |-> dim,
             cond_dim |-> cond_dim]
      [] preset = "MaskedAutoregressiveFlow" ->
            [kind |-> "MaskedAutoregressive", dim |-> dim, cond_dim |-> cond_dim]
      [] preset = "BlockNeuralAutoregressiveFlow" ->
            [kind |-> "BlockAutoregressiveNetwork", dim |-> dim, cond_dim |-> cond_dim]
      [] preset = "TriangularSplineFlow" ->
            Chain(<<[kind |-> "LeakyTanh", shape |-> <<dim>>],
                    [kind |-> "RationalQuadraticSpline", shape |-> <<dim>>],
                    Invert([kind |-> "LeakyTanh", shape |-> <<dim>>]),
                    [kind |-> "TriangularAffine", dim |-> dim]>>
                  \o (IF cond_dim # None
                      THEN <<[kind |-> "AdditiveCondition", shape |-> <<dim>>,
                              cond_shape |-> <<cond_dim[1]>>]>>
                      ELSE <<>>))
      [] preset = "PlanarFlow" ->
            [kind |-> "Planar", dim |-> dim, cond_dim |-> cond_dim]

\* make_layer(key), perm the ordering the key gives
FlowMakeLayer(preset, dim, cond_dim, perm) ==
    AddDefaultPermute(FlowLayerBijection(preset, dim, cond_dim), dim, perm)

\* (a variant that inverts when invert is False)
FlowBijectionSwapped(invert, stacked) == IF invert THEN Scan(stacked) ELSE Invert(Scan(stacked))

\* Invert(Scan(layers)) if invert else Scan(layers)
FlowBijection(invert, stacked) == IF invert THEN Invert(Scan(stacked)) ELSE Scan(stacked)

\* the orderings jr.permutation can give make_layer; it is called for dim >= 3
FlowPerms(preset, base_shape) ==
    IF Len(base_shape) >= 1 /\ FlowDim(preset, base_shape) >= 3
    THEN PermutationsOf(FlowDim(preset, base_shape))
    ELSE {<<>>}

\* The constructor of a flow: the exception raised, the layers built and the
\* object constructed.
FlowNew(preset, base_shape, cond_dim, flow_layers, invert, perms) ==
    IF FlowNdimCheck(preset, base_shape)
    THEN [raised |-> "ValueError", layers |-> <<>>, self |-> None]
    ELSE LET dim == FlowDim(preset, base_shape)
             stacked == [i \in 1 .. flow_layers |->
                            FlowMakeLayer(preset, dim, cond_dim, perms[i])]
         IN  [raised |-> "",
              layers |-> stacked,
              self |-> [preset |-> preset,
                        flow_layers |-> flow_layers,
                        permute_strategy |-> GetDefaultPermuteName(dim),
                        shape |-> <<dim>>,
                        cond_shape |-> IF cond_dim = None THEN None
                                       ELSE Some(<<cond_dim[1]>>),
                        base_dist |-> [shape |-> base_shape],
                        bijection |-> FlowBijection(invert, stacked)]]

\* A flow is constructed.
FlowInit ==
    /\ pc = "idle"
    /\ \E preset \in FlowPresets, base_shape \in BaseShapes, cond_dim \in CondDims,
          flow_layers \in FlowLayerCounts, invert \in BOOLEAN :
       \E perms \in [1 .. flow_layers -> FlowPerms(preset, base_shape)] :
          LET new == FlowNew(preset, base_shape, cond_dim, flow_layers, invert, perms)
          IN  /\ args' = [preset |-> preset, base_shape |-> base_shape,
                          cond_dim |-> cond_dim, flow_layers |-> flow_layers,
                          invert |-> invert, perms |-> perms]
              /\ raised' = new.raised
              /\ built' = new.layers
              /\ flow' = new.self
              /\ pc' = IF new.raised # "" THEN "flow_raised" ELSE "flow_built"
    /\ UNCHANGED <<callVars, scanVars, vmap, calls>>

\* Invert: each method is the opposite method of the wrapped bijection
InvertMethod(m) ==
    CASE m = "transform" -> "inverse"
      [] m = "inverse" -> "transform"
      [] m = "transform_and_log_det" -> "inverse_and_log_det"
      [] m = "inverse_and_log_det" -> "transform_and_log_det"

\* Transformed: log_prob inverts the bijection with its log-det and sample
\* transforms a sample of the base distribution
TransformedMethod(op) == IF op = "log_prob" THEN "inverse_and_log_det" ELSE "transform"

\* whether method m of a bijection is available: a block autoregressive network
\* has no analytic inverse
RECURSIVE Supports(_, _)
Supports(b, m) ==
    CASE b.kind = "BlockAutoregressiveNetwork" -> ~ScanReverse(m)
      [] b.kind = "Chain" -> \A i \in 1 .. Len(b.bijections) : Supports(b.bijections[i], m)
      [] b.kind = "Invert" -> Supports(b.bijection, InvertMethod(m))
      [] OTHER -> TRUE

\* Method m of a Scan over the stacked layers: the step calls method m of the
\* layer of each iteration, in the order of the scan, until a call raises.
ScanLayerCalls(stacked, m) ==
    LET L == Len(stacked)
        order == [n \in 1 .. L |-> ScanIndex(n, L, ScanReverse(m))]
        failing == {n \in 1 .. L : ~Supports(stacked[order[n]], m)}
        last == IF failing = {} THEN L ELSE CHOOSE n \in failing : \A o \in failing : n <= o
    IN  [raised |-> IF failing = {} THEN "" ELSE "NotImplementedError",
         calls |-> [n \in 1 .. last |-> [layer |-> order[n], method |-> m]]]

\* method m of the bijection of a flow, Scan(layers) or Invert(Scan(layers))
FlowBijectionCalls(b, m) ==
    IF b.kind = "Invert"
    THEN ScanLayerCalls(b.bijection.bijection, InvertMethod(m))
    ELSE ScanLayerCalls(b.bijection, m)

\* log_prob or sample of a constructed flow is called.
FlowCall ==
    /\ pc = "flow_built"
    /\ \E op \in {"log_prob", "sample"} :
          LET out == FlowBijectionCalls(flow.bijection, TransformedMethod(op))
          IN  /\ method' = op
              /\ calls' = out.calls
              /\ raised' = out.raised
    /\ pc' = "flow_called"
    /\ UNCHANGED <<x_in, condition, result, orig, scanVars, args, vmap, flow, built>>

\* ------------------------------------------------------------------ layers of chains
\* make_layer of TriangularSplineFlow builds a Chain of bijections and hands it
\* to _add_default_permute, which merges the chains.  The elements are affine
\* bijections here (a scaling and a shift, which do not commute), or chains of
\* them; static is their sum_log_det.
ChainPrimitives(static) ==
    {[kind |-> "Affine", loc |-> p.loc, scale |-> p.scale, sum_log_det |-> static,
      cond_shape |-> None] : p \in {[loc |-> 0, scale |-> 2], [loc |-> 1, scale |-> 1]}}

ChainElements(static) ==
    ChainPrimitives(static) \cup
        {Chain(<<pq[1], pq[2]>>) :
            pq \in {e \in ChainPrimitives(static) \X ChainPrimitives(static) : e[1] # e[2]}}

ChainLists(static) ==
    {<<e>> : e \in ChainElements(static)} \cup
        {<<e, f>> : e \in ChainElements(static), f \in ChainElements(static)}

ChainDims == {2, 3}

\* make_layer builds a layer and a method of the layer is called on x.
MakeLayerCall ==
    /\ pc = "idle"
    /\ \E static \in BOOLEAN, dim \in ChainDims, m \in Methods :
       \E bijections \in ChainLists(static), x \in [1 .. dim -> Values],
          perm \in (IF dim >= 3 THEN PermutationsOf(dim) ELSE {<<>>}) :
          LET layer == AddDefaultPermute(Chain(bijections), dim, perm)
          IN  /\ args' = [bijections |-> bijections, dim |-> dim, perm |-> perm]
              /\ bijection' = layer
              /\ method' = m
              /\ x_in' = x
              /\ result' = BijectionCall(m, layer, x, None)
    /\ pc' = "layer_called"
    /\ UNCHANGED <<condition, orig, carry, k, applied, vmap, raised, flowVars>>

\* ------------------------------------------------------------------ specification
Next ==
    \/ ScanCall
    \/ ScanStep
    \/ ScanReturn
    \/ ScanRoundTrip
    \/ ScanReadShape
    \/ VmapInit
    \/ VmapReadShape
    \/ VmapCall
    \/ VmapRoundTrip
    \/ DistSample
    \/ DistLogProb
    \/ DistLogProbOf
    \/ DistCondition
    \/ FlowInit
    \/ FlowCall
    \/ MakeLayerCall

Spec == Init /\ [][Next]_vars

\* ------------------------------------------------------------------ properties
ScanDone == pc = "scan_done"

\* every layer of b is a bijection under condition c: inverse undoes transform
\* and transform undoes inverse
LayersInvertible(b, c) ==
    \A i \in 1 .. NumLayers(b), v \in Inputs :
        LET layer == ChainLayers(b)[i]
        IN  /\ LayerInverse(layer, LayerTransform(layer, v, c), c) = v
            /\ LayerTransform(layer, LayerInverse(layer, v, c), c) = v

\* C1 as stated: whenever a method of Scan has returned, its result is the
\* result of the same method of the Chain of the sliced layers, log-det
\* included, also for layers that return an array-valued log-det.
C1_ScanEqualsChainAlways ==
    (ScanDone /\ LayersInvertible(bijection, condition)) => result = ChainCall(method, ChainLayers(bijection), x_in, condition)

\* C1 amended: the outputs of Scan and of the Chain of the sliced layers are
\* always equal; the log-dets are equal when the layers return a scalar
\* log-det, and when they return an array-valued one Scan returns the scalar
\* sum of the entries of the array the Chain returns.
C1_ScanEqualsChain ==
    ScanDone =>
        LET chain == ChainCall(method, ChainLayers(bijection), x_in, condition)
        IN  IF method \in LogDetMethods
            THEN /\ result[1] = chain[1]
                 /\ bijection.sum_log_det => result[2] = chain[2]
                 /\ ~bijection.sum_log_det => result[2] = ArraySum(chain[2])
            ELSE result = chain

C1_Witness ==
    /\ ScanDone
    /\ method = "inverse_and_log_det"
    /\ NumLayers(bijection) = 2
    /\ bijection.scale[1] # bijection.scale[2]
    /\ ~bijection.sum_log_det
    /\ result[2] # ChainCall(method, ChainLayers(bijection), x_in, condition)[2]

Forward(m) == m \in {"transform", "transform_and_log_det"}
Primal(m, out) == IF m \in LogDetMethods THEN out[1] ELSE out

\* C2: while a method of Scan runs and once it has returned, the j-th layer
\* applied is layer j for the forward methods and layer L-j+1 for the inverse
\* methods, it received the condition of the call and the value the layer
\* before it produced (the input of the call for the first), and at the return
\* every layer has been applied exactly once and the last one produced the
\* returned value.
C2_LayerOrder ==
    pc \in {"scan", "scan_done"} =>
        LET L == NumLayers(bijection)
        IN  /\ Len(applied) = k
            /\ k <= L
            /\ \A j \in 1 .. Len(applied) :
                  /\ applied[j].layer = (IF Forward(method) THEN j ELSE L - j + 1)
                  /\ applied[j].condition = condition
                  /\ applied[j].x = (IF j = 1 THEN x_in
                                     ELSE Primal(method, applied[j - 1].out))
            /\ ScanDone =>
                  /\ Len(applied) = L
                  /\ \A i \in 1 .. L :
                        Cardinality({j \in 1 .. L : applied[j].layer = i}) = 1
                  /\ Primal(method, result) =
                        (IF L = 0 THEN x_in ELSE Primal(method, applied[L].out))

C2_Witness ==
    /\ ScanDone
    /\ method = "inverse"
    /\ NumLayers(bijection) = 2
    /\ applied[1].layer = 2
    /\ applied[2].layer = 1
    /\ condition # None
    /\ applied[2].x # x_in

RECURSIVE SumOver(_, _)
SumOver(f, n) == IF n = 0 THEN 0 ELSE f[n] + SumOver(f, n - 1)

\* C3: the log-det returned by transform_and_log_det and inverse_and_log_det of
\* Scan is a scalar, the sum over the layers of the sum of the entries of the
\* log-det each layer returned, every layer counted once; it is 0 for no layer.
C3_LogDetSum ==
    (ScanDone /\ method \in LogDetMethods) =>
        LET L == NumLayers(bijection)
            sign == IF method = "transform_and_log_det" THEN 1 ELSE -1
        IN  /\ result[2].shape = <<>>
            /\ Len(applied) = L
            /\ result[2].data[1] =
                  SumOver([j \in 1 .. L |-> SeqSum(applied[j].out[2].data)], L)
            /\ result[2].data[1] =
                  SumOver([i \in 1 .. L |->
                              sign * ShapeOfLayer[1] * LogAbs(bijection.scale[i])], L)
            /\ L = 0 => result[2] = Scalar(0)

C3_Witness ==
    /\ ScanDone
    /\ method = "transform_and_log_det"
    /\ NumLayers(bijection) = 2
    /\ ~bijection.sum_log_det
    /\ bijection.scale[1] = 2
    /\ bijection.scale[2] = 2
    /\ result[2] = Scalar(4)


\* the condition and the parameters of batch slice i of the constructed Vmap
SliceCondition(i) ==
    IF condition = None \/ args.in_axis_condition = None THEN condition
    ELSE Some(condition[i])

SliceOf(i) ==
    LET axes == ResolveVmappedAxes(args.bijection, args.in_axis)
        b == args.bijection
    IN  [loc |-> IF axes[1] = None THEN b.loc.data[1] ELSE b.loc.data[i],
         scale |-> IF axes[2] = None THEN b.scale.data[1] ELSE b.scale.data[i]]

\* every slice of the Vmap is a bijection under its condition
SlicesInvertible ==
    \A i \in 1 .. vmap.axis_size, v \in Values :
        LET layer == SliceBijection(vmap.bijection, vmap.in_axes[1], i)
            c == SliceCondition(i)
        IN  /\ LayerInverse(layer, LayerTransform(layer, <<v>>, c), c) = <<v>>
            /\ LayerTransform(layer, LayerInverse(layer, <<v>>, c), c) = <<v>>

VmapDone == pc = "vmap_done"

\* C4: when every layer of a Scan, or every batch slice of a Vmap, is a
\* bijection (inverse undoes transform and transform undoes inverse), feeding
\* the output of transform to inverse, or of inverse to transform, with the
\* same condition gives back the input.
C4_RoundTrip ==
    /\ (ScanDone /\ orig # None /\ LayersInvertible(bijection, condition)) =>
          result = orig[1]
    /\ (VmapDone /\ orig # None /\ SlicesInvertible) => result = orig[1]

C4_ScanWitness ==
    /\ ScanDone
    /\ orig # None
    /\ method = "inverse"
    /\ NumLayers(bijection) = 2
    /\ LayersInvertible(bijection, condition)
    /\ x_in # orig[1]
    /\ result = orig[1]

C4_VmapWitness ==
    /\ VmapDone
    /\ orig # None
    /\ method = "transform"
    /\ vmap.axis_size = 2
    /\ ~InAxisIsNone(args.in_axis)
    /\ SlicesInvertible
    /\ x_in # orig[1]
    /\ result = orig[1]

VmapConstructed == pc \in {"vmap_raised", "vmap_built", "vmap_shape", "vmap_done"}

\* C5: a Vmap constructed with both in_axis and axis_size, or with neither,
\* raises ValueError and no object is produced; these two errors are raised in
\* no other case.
C5_ExactlyOne ==
    VmapConstructed =>
        LET both == ~InAxisIsNone(args.in_axis) /\ args.axis_size # None
            neither == InAxisIsNone(args.in_axis) /\ args.axis_size = None
        IN  /\ both <=> raised = "ValueError: Cannot specify both in_axis and axis_size."
            /\ neither <=>
                  raised = "ValueError: Either axis_size or in_axis must be provided."
            /\ (both \/ neither) => (pc = "vmap_raised" /\ vmap = None)

C5_WitnessBoth ==
    /\ pc = "vmap_raised"
    /\ args.in_axis.tree
    /\ args.axis_size = Some(2)
    /\ MappedAxisSizes(args.bijection, args.in_axis) = <<Some(2)>>

C5_WitnessNeither ==
    /\ pc = "vmap_raised"
    /\ InAxisIsNone(args.in_axis)
    /\ args.axis_size = None

\* C6: a Vmap constructed with in_axis and without axis_size raises ValueError
\* and produces no object when in_axis maps every leaf to None; otherwise it is
\* built and its axis_size is the length, along its mapped axis, of the first
\* leaf mapped to an axis.
C6_InferAxisSize ==
    (VmapConstructed /\ ~InAxisIsNone(args.in_axis) /\ args.axis_size = None) =>
        LET leaves == TreeLeaves(args.bijection)
            axes == ResolveVmappedAxes(args.bijection, args.in_axis)
            mapped == {i \in 1 .. Len(leaves) : axes[i] # None}
        IN  IF mapped = {}
            THEN /\ pc = "vmap_raised"
                 /\ raised = "ValueError: in_axis did not map to any leaves to vectorize."
                 /\ vmap = None
            ELSE LET first == CHOOSE i \in mapped : \A j \in mapped : i <= j
                 IN  /\ pc # "vmap_raised"
                     /\ raised = ""
                     /\ vmap.axis_size = leaves[first].shape[axes[first][1] + 1]

C6_Witness ==
    /\ pc = "vmap_built"
    /\ args.axis_size = None
    /\ args.in_axis = [tree |-> TRUE, specs |-> <<AxisInt(1), AxisInt(0)>>]
    /\ args.bijection.loc.shape = <<1, 2>>
    /\ args.bijection.scale.shape = <<1>>
    /\ vmap.axis_size = 2

C6_WitnessRaised ==
    /\ pc = "vmap_raised"
    /\ args.axis_size = None
    /\ args.in_axis = [tree |-> TRUE, specs |-> <<AxisNone, AxisNone>>]
    /\ args.bijection.loc.shape = <<2>>
    /\ raised # ""

\* C7: slice i of the output of Vmap.transform (Vmap.inverse) is the transform
\* (inverse) of x[i] by the affine bijection whose mapped leaves are element i
\* of the leaves and whose other leaves are whole, under element i of the
\* condition when in_axis_condition is set and under the whole condition
\* otherwise.
C7_SliceWise ==
    (VmapDone /\ method \in {"transform", "inverse"}) =>
        /\ Len(x_in) = vmap.axis_size
        /\ Len(result) = vmap.axis_size
        /\ \A i \in 1 .. vmap.axis_size :
              LET b == SliceOf(i)
                  c == CondTerm(SliceCondition(i))
              IN  result[i] =
                      (IF method = "transform"
                       THEN Mod(b.scale * x_in[i] + b.loc + c)
                       ELSE Mod((x_in[i] - b.loc - c) * InvMod(b.scale)))

C7_Witness ==
    /\ VmapDone
    /\ method = "inverse"
    /\ orig = None
    /\ vmap.axis_size = 2
    /\ args.in_axis = [tree |-> TRUE, specs |-> <<AxisInt(0), AxisNone>>]
    /\ args.bijection.loc.data = <<0, 1>>
    /\ args.bijection.scale.data = <<2>>
    /\ args.in_axis_condition = Some(0)
    /\ condition = <<0, 1>>
    /\ x_in = <<1, 1>>
    /\ result = <<2, 1>>

C7_WitnessBroadcast ==
    /\ VmapDone
    /\ method = "transform"
    /\ orig = None
    /\ InAxisIsNone(args.in_axis)
    /\ args.axis_size = Some(2)
    /\ args.in_axis_condition = None
    /\ condition = Some(1)
    /\ args.bijection.scale.data = <<2>>
    /\ args.bijection.loc.data = <<1>>
    /\ x_in = <<0, 1>>
    /\ result = <<2, 1>>

\* C8: transform_and_log_det (inverse_and_log_det) of a Vmap returns the output
\* of transform (inverse) on the same arguments, and one scalar log-det, the sum
\* of the log-dets of the axis_size batch slices, each counted once.
C8_LogDetSum ==
    (VmapDone /\ method \in LogDetMethods) =>
        LET forward == method = "transform_and_log_det"
            sign == IF forward THEN 1 ELSE -1
        IN  /\ result[1] = (IF forward THEN VmapTransform(vmap, x_in, condition)
                            ELSE VmapInverse(vmap, x_in, condition))
            /\ Len(result[1]) = vmap.axis_size
            /\ result[2].shape = <<>>
            /\ result[2].data[1] =
                  SumOver([i \in 1 .. vmap.axis_size |-> sign * LogAbs(SliceOf(i).scale)],
                          vmap.axis_size)

C8_Witness ==
    /\ VmapDone
    /\ method = "inverse_and_log_det"
    /\ vmap.axis_size = 2
    /\ args.bijection.scale.data = <<2, 1>>
    /\ args.bijection.scale.shape = <<2>>
    /\ result[2] = Scalar(-1)

\* C9: the shape of a Vmap is axis_size followed by the shape of the wrapped
\* bijection; its cond_shape is the wrapped cond_shape when that is None or
\* in_axis_condition is None, and otherwise the wrapped cond_shape with
\* axis_size inserted at position in_axis_condition, one dimension longer.  The
\* shape and cond_shape of a Scan are those of the wrapped bijection.
C9_Shapes ==
    /\ pc = "vmap_shape" =>
          LET cs == args.bijection.cond_shape
              ax == args.in_axis_condition
          IN  /\ Head(result[1]) = vmap.axis_size
              /\ Tail(result[1]) = args.bijection.shape
              /\ (cs = None \/ ax = None) => result[2] = cs
              /\ (cs # None /\ ax # None) =>
                    /\ result[2] # None
                    /\ Len(result[2][1]) = Len(cs[1]) + 1
                    /\ result[2][1][ax[1] + 1] = vmap.axis_size
                    /\ \A j \in 1 .. Len(cs[1]) :
                          result[2][1][IF j <= ax[1] THEN j ELSE j + 1] = cs[1][j]
    /\ pc = "scan_shape" =>
          /\ result[1] = bijection.shape
          /\ result[2] = bijection.cond_shape

C9_Witness ==
    /\ pc = "vmap_shape"
    /\ args.bijection.shape = <<2>>
    /\ args.bijection.cond_shape = Some(<<2, 3>>)
    /\ args.in_axis_condition = Some(1)
    /\ vmap.axis_size = 1
    /\ result = <<(<<1, 2>>), Some(<<2, 1, 3>>)>>

C9_WitnessScan ==
    /\ pc = "scan_shape"
    /\ result = <<ShapeOfLayer, Some(<<>>)>>

\* C10: sample with a condition of shape leading + cond_shape returns an array
\* of shape sample_shape + leading + shape (sample_shape + shape without a
\* condition or without leading dimensions), and log_prob of those samples with
\* the same condition returns an array of shape sample_shape + leading.
C10_SampleShapes ==
    /\ pc = "dist_sampled" =>
          /\ result = args.sample_shape \o args.leading \o args.dist.shape
          /\ (condition = None \/ args.leading = <<>>) =>
                result = args.sample_shape \o args.dist.shape
    /\ pc = "dist_log_prob" =>
          /\ raised = ""
          /\ result = args.sample_shape \o args.leading

C10_Witness ==
    /\ pc = "dist_log_prob"
    /\ args.dist = [shape |-> <<2>>, cond_shape |-> Some(<<4>>)]
    /\ condition = Some(<<3, 4>>)
    /\ args.sample_shape = <<5>>
    /\ x_in = <<5, 3, 2>>
    /\ result = <<5, 3>>

\* the trailing Len(shape) dimensions of an array of shape x are not shape
ShapeMismatch(shape, x) ==
    \/ Len(x) < Len(shape)
    \/ \E i \in 1 .. Len(shape) : x[Len(x) - Len(shape) + i] # shape[i]

\* C11: log_prob(x) raises ValueError and returns no result whenever the
\* trailing len(shape) dimensions of x are not the shape of the distribution,
\* also when x has fewer dimensions than shape; otherwise it raises nothing
\* and returns an array of the leading dimensions of x.
C11_LogProbShapeMismatch ==
    pc = "dist_log_prob_of" =>
        IF ShapeMismatch(args.dist.shape, x_in)
        THEN raised = "ValueError" /\ result = None
        ELSE /\ raised = ""
             /\ result = Some(SubSeq(x_in, 1, Len(x_in) - Len(args.dist.shape)))

C11_Witness ==
    /\ pc = "dist_log_prob_of"
    /\ args.dist.shape = <<3>>
    /\ x_in = <<3, 2>>
    /\ raised = "ValueError"
    /\ result = None

C11_WitnessFewer ==
    /\ pc = "dist_log_prob_of"
    /\ args.dist.shape = <<3, 2>>
    /\ x_in = <<2>>
    /\ raised = "ValueError"
    /\ result = None


\* C12: a call whose condition does not fit the cond_shape of the object called
\* (one given where cond_shape is None, none given where it is not) is rejected
\* with ValueError at the call: for sample and log_prob of a distribution it
\* raises and returns nothing, and for a method of Scan no layer is ever handed
\* that condition and the method does not return.
C12_ConditionRejectedAtCall ==
    /\ (pc = "dist_condition" /\ (args.dist.cond_shape = None) # (condition = None)) =>
          raised = "ValueError" /\ result = None
    /\ (pc \in {"scan", "scan_done", "scan_raised"}
          /\ (ScanCondShape(bijection) = None) # (condition = None)
          /\ LayersInvertible(bijection, None)) =>
          /\ pc # "scan_done"
          /\ applied = <<>>


FlowConstructed == pc \in {"flow_raised", "flow_built", "flow_called"}

\* C13: the constructor of every flow preset, given a base distribution whose
\* shape does not have exactly one dimension, raises ValueError with no layer
\* built and no flow constructed; given one of one dimension it raises nothing
\* and constructs the flow with its flow_layers layers.
C13_BaseDistNdim ==
    FlowConstructed =>
        IF Len(args.base_shape) # 1
        THEN /\ pc = "flow_raised"
             /\ raised = "ValueError"
             /\ built = <<>>
             /\ flow = None
        ELSE /\ pc # "flow_raised"
             /\ raised # "ValueError"
             /\ Len(built) = args.flow_layers
             /\ flow # None
             /\ flow.preset = args.preset

C13_Witness ==
    /\ pc = "flow_raised"
    /\ args.preset = "TriangularSplineFlow"
    /\ args.base_shape = <<2, 2>>
    /\ args.flow_layers = 2
    /\ raised = "ValueError"
    /\ flow = None

C13_WitnessScalar ==
    /\ pc = "flow_raised"
    /\ args.preset = "CouplingFlow"
    /\ args.base_shape = <<>>
    /\ built = <<>>


\* C14: a flow built with invert=True has Invert(Scan(layers)) as its
\* bijection, log_prob calls only transform_and_log_det of the layers and
\* sample only inverse of the layers; built with invert=False it has
\* Scan(layers), log_prob calls only inverse_and_log_det and sample only
\* transform.  A call that raises nothing has called every layer once.  For
\* BlockNeuralAutoregressiveFlow, log_prob succeeds and sample fails with
\* invert=True, and sample succeeds and log_prob fails with invert=False.
C14_InvertDirections ==
    pc = "flow_called" =>
        LET expected ==
                IF args.invert
                THEN (IF method = "log_prob" THEN "transform_and_log_det" ELSE "inverse")
                ELSE (IF method = "log_prob" THEN "inverse_and_log_det" ELSE "transform")
        IN  /\ flow.bijection.kind = (IF args.invert THEN "Invert" ELSE "Scan")
            /\ IF args.invert
               THEN /\ flow.bijection.bijection.kind = "Scan"
                    /\ flow.bijection.bijection.bijection = built
               ELSE flow.bijection.bijection = built
            /\ Len(calls) >= 1
            /\ \A n \in 1 .. Len(calls) : calls[n].method = expected
            /\ raised = "" =>
                  \A i \in 1 .. args.flow_layers :
                      Cardinality({n \in 1 .. Len(calls) : calls[n].layer = i}) = 1
            /\ args.preset = "BlockNeuralAutoregressiveFlow" =>
                  (raised = "" <=> (args.invert <=> method = "log_prob"))

C14_Witness ==
    /\ pc = "flow_called"
    /\ args.preset = "BlockNeuralAutoregressiveFlow"
    /\ args.invert
    /\ args.flow_layers = 2
    /\ method = "sample"
    /\ raised = "NotImplementedError"
    /\ calls = <<[layer |-> 2, method |-> "inverse"]>>

C14_WitnessLogProb ==
    /\ pc = "flow_called"
    /\ args.preset = "BlockNeuralAutoregressiveFlow"
    /\ args.invert
    /\ args.flow_layers = 2
    /\ method = "log_prob"
    /\ raised = ""
    /\ calls = <<[layer |-> 1, method |-> "transform_and_log_det"],
                 [layer |-> 2, method |-> "transform_and_log_det"]>>

C14_WitnessForward ==
    /\ pc = "flow_called"
    /\ args.preset = "BlockNeuralAutoregressiveFlow"
    /\ ~args.invert
    /\ method = "log_prob"
    /\ raised = "NotImplementedError"


\* the elements of a layer: those of a Chain, or the layer itself
LayerElements(layer) == IF layer.kind = "Chain" THEN layer.bijections ELSE <<layer>>

\* C16: in a constructed flow of dimension dim, permute_strategy is "none" for
\* dim = 1 and every layer is the bijection of make_layer with no permutation
\* added; it is "flip" for dim = 2 and every layer is that bijection followed by
\* one Flip; it is "random" for dim >= 3 and every layer is that bijection
\* followed by one Permute of an ordering of 0 .. dim-1.  The flow has shape
\* (dim,), and cond_shape None when cond_dim is None and (cond_dim,) otherwise.
C16_PermuteStrategy ==
    pc \in {"flow_built", "flow_called"} =>
        LET dim == args.base_shape[1]
            bare == LayerElements(FlowLayerBijection(args.preset, dim, args.cond_dim))
            permuting == {"Flip", "Permute"}
        IN  /\ dim >= 1
            /\ flow.permute_strategy \in {"none", "flip", "random"}
            /\ flow.permute_strategy = "none" <=> dim = 1
            /\ flow.permute_strategy = "flip" <=> dim = 2
            /\ flow.permute_strategy = "random" <=> dim >= 3
            /\ Len(built) = args.flow_layers
            /\ \A i \in 1 .. Len(built) :
                  LET elems == LayerElements(built[i])
                      last == elems[Len(elems)]
                  IN  /\ \A j \in 1 .. Len(bare) : elems[j] = bare[j]
                      /\ \A j \in 1 .. Len(bare) : elems[j].kind \notin permuting
                      /\ dim = 1 => Len(elems) = Len(bare)
                      /\ dim >= 2 => Len(elems) = Len(bare) + 1
                      /\ dim = 2 => last = Flip(<<2>>)
                      /\ dim >= 3 =>
                            /\ last.kind = "Permute"
                            /\ Len(last.permutation) = dim
                            /\ {last.permutation[j] : j \in 1 .. dim} = 0 .. dim - 1
            /\ flow.shape = <<dim>>
            /\ flow.cond_shape = None <=> args.cond_dim = None
            /\ args.cond_dim # None => flow.cond_shape = Some(<<args.cond_dim[1]>>)

C16_Witness ==
    /\ pc = "flow_built"
    /\ args.preset = "TriangularSplineFlow"
    /\ args.base_shape = <<3>>
    /\ args.cond_dim = Some(2)
    /\ flow.permute_strategy = "random"
    /\ Len(built) = 2
    /\ Len(built[1].bijections) = 6
    /\ built[1].bijections[6] = Permute(<<2, 0, 1>>)
    /\ built[2].bijections[6] = Permute(<<0, 1, 2>>)
    /\ flow.cond_shape = Some(<<2>>)

C16_WitnessNone ==
    /\ pc = "flow_built"
    /\ args.preset = "CouplingFlow"
    /\ args.base_shape = <<1>>
    /\ flow.permute_strategy = "none"
    /\ built[1].kind = "Coupling"
    /\ flow.cond_shape = None

C16_WitnessFlip ==
    /\ pc = "flow_built"
    /\ args.preset = "PlanarFlow"
    /\ args.base_shape = <<2>>
    /\ flow.permute_strategy = "flip"
    /\ built[1] = Chain(<<FlowLayerBijection("PlanarFlow", 2, args.cond_dim), Flip(<<2>>)>>)


\* the primitive bijections of a bijection, from left to right
RECURSIVE PrimitivesOf(_)
PrimitivesOf(b) ==
    IF b.kind # "Chain" THEN <<b>>
    ELSE IF b.bijections = <<>> THEN <<>>
    ELSE PrimitivesOf(Chain(SubSeq(b.bijections, 1, Len(b.bijections) - 1)))
             \o PrimitivesOf(b.bijections[Len(b.bijections)])

\* C15: the layer _add_default_permute returns for a Chain, whose elements may
\* be Chains, is a Chain of primitive bijections only, the primitives of the
\* unmerged Chain([bijection, permutation]) in the same left-to-right order, and
\* each of its four methods returns on every input what the same method of the
\* unmerged chain returns, log-det included.
C15_MergeChains ==
    pc = "layer_called" =>
        LET unmerged ==
                Chain(<<Chain(args.bijections),
                        IF args.dim = 2 THEN Flip(<<2>>) ELSE Permute(args.perm)>>)
        IN  /\ bijection.kind = "Chain"
            /\ \A i \in 1 .. Len(bijection.bijections) :
                  bijection.bijections[i].kind # "Chain"
            /\ bijection.bijections = PrimitivesOf(unmerged)
            /\ result = BijectionCall(method, unmerged, x_in, None)

C15_Witness ==
    /\ pc = "layer_called"
    /\ args.dim = 3
    /\ args.perm = <<1, 2, 0>>
    /\ Len(args.bijections) = 2
    /\ args.bijections[1].kind = "Chain"
    /\ args.bijections[2].kind = "Affine"
    /\ Len(bijection.bijections) = 4
    /\ method = "inverse_and_log_det"
    /\ ~bijection.bijections[1].sum_log_det
    /\ x_in = <<0, 1, 2>>
    /\ result[1] # x_in
    /\ result[2].shape = <<3>>


====
